---- MODULE Spec2Model ----
(***************************************************************************)
(* Model of the stealth-address SDK (src/src/core.ts, src/src/utils.ts).   *)
(*                                                                         *)
(* Values.  A byte array is a sequence of chunks; a chunk [kind, v, skip]  *)
(* stands for a fixed-width big-endian field: kind gives its width ("b32"  *)
(* a 32-byte word, "cpt" a 33-byte compressed point, "upt" a 65-byte       *)
(* uncompressed point, "b20" an address, "b1" one byte, "b5" five bytes),  *)
(* v its content and skip the number of leading bytes cut off.  A point is *)
(* written by its discrete logarithm to the generator, so scalar           *)
(* multiplication is multiplication modulo the group order.  A JavaScript  *)
(* hex string is [pfx, cs, b]: whether it starts with "0x", the case of    *)
(* its letters, and the bytes its digits spell.                            *)
(***************************************************************************)
EXTENDS Integers, Sequences, FiniteSets, TLC

\* Order of the (scaled-down) curve group; valid scalars are 1..CurveOrder-1.
CurveOrder == 5
\* Number of values the first byte of a hash takes in the scaled-down model.
NumTags == 2
\* Longest metadata list handed to the scanner.
MaxRecords == 3

\* 32-byte words range over 0..CurveOrder: 0 and CurveOrder are not valid scalars.
WordSpace == CurveOrder + 1
Scalars == 1 .. (CurveOrder - 1)

-----------------------------------------------------------------------------
(* Byte arrays and hex strings *)

Chunk(kind, v) == [kind |-> kind, v |-> v, skip |-> 0]

Hex(pfx, cs, b) == [pfx |-> pfx, cs |-> cs, b |-> b]

\* The empty string (an omitted optional argument behaves the same: falsy).
Falsy == Hex(FALSE, "lower", <<>>)

IsFalsy(s) == ~s.pfx /\ s.b = <<>>

KindLen(kind) ==
    CASE kind = "b1" -> 1
      [] kind = "b5" -> 5
      [] kind = "b20" -> 20
      [] kind = "b32" -> 32
      [] kind = "cpt" -> 33
      [] kind = "upt" -> 65

RECURSIVE ByteLen(_)
ByteLen(bytes) ==
    IF bytes = <<>> THEN 0
    ELSE KindLen(Head(bytes).kind) - Head(bytes).skip + ByteLen(Tail(bytes))

\* s.length
StrLen(s) == 2 * ByteLen(s.b) + (IF s.pfx THEN 2 ELSE 0)

\* s.startsWith("0x") ? s : `0x${s}`
WithPrefix(s) == [s EXCEPT !.pfx = TRUE]

toLowerCase(s) == [s EXCEPT !.cs = "lower"]

\* utils.hexToUint8Array: strips a "0x" prefix when there is one.
hexToUint8Array(hex) == hex.b

\* utils.uint8ArrayToHex: lower-case digits behind "0x".
uint8ArrayToHex(bytes) == Hex(TRUE, "lower", bytes)

\* viem hexToBytes: drops the first two characters whatever they are, so a
\* string without "0x" loses its first byte.
hexToBytes(hex) ==
    IF hex.pfx \/ hex.b = <<>> THEN hex.b
    ELSE <<[Head(hex.b) EXCEPT !.skip = 1]>> \o Tail(hex.b)

\* viem toHex of a byte array.
toHex(bytes) == Hex(TRUE, "lower", bytes)

-----------------------------------------------------------------------------
(* Results *)

Ok(val) == [ok |-> TRUE, val |-> val, err |-> "none", cause |-> "none"]

Fail(err, cause) == [ok |-> FALSE, val |-> Falsy, err |-> err, cause |-> cause]

-----------------------------------------------------------------------------
(* Curve and hash adapter *)

KindCode(kind) ==
    CASE kind = "b1" -> 1
      [] kind = "b5" -> 2
      [] kind = "b20" -> 3
      [] kind = "b32" -> 4
      [] kind = "cpt" -> 5
      [] kind = "upt" -> 6

RECURSIVE Absorb(_, _)
Absorb(acc, bytes) ==
    IF bytes = <<>> THEN acc
    ELSE Absorb((acc * 31 + 7 * Head(bytes).v + 3 * KindCode(Head(bytes).kind)
                   + 13 * Head(bytes).skip + 1) % 1009,
                Tail(bytes))

\* keccak-256 of a byte array: a deterministic 32-byte word.
Keccak(bytes) == Chunk("b32", Absorb(17, bytes) % WordSpace)

\* viem keccak256(hex): hashes the bytes the hex string spells.
keccak256(hex) == Hex(TRUE, "lower", <<Keccak(hexToBytes(hex))>>)

ValidScalarBytes(bytes) ==
    /\ Len(bytes) = 1
    /\ bytes[1].kind = "b32"
    /\ bytes[1].skip = 0
    /\ bytes[1].v \in Scalars

ValidPointBytes(bytes) ==
    /\ Len(bytes) = 1
    /\ bytes[1].kind \in {"cpt", "upt"}
    /\ bytes[1].skip = 0
    /\ bytes[1].v \in Scalars

\* secp256k1.getPublicKey(priv, true): the compressed point priv * G.
getPublicKey(privBytes) ==
    IF ~ValidScalarBytes(privBytes) THEN Fail("curve", "invalid private key")
    ELSE Ok(<<Chunk("cpt", privBytes[1].v)>>)

\* secp256k1.getSharedSecret(priv, pub, true): the compressed point priv * pub.
\* The library looks at the lengths first ("first arg must be private key",
\* "second arg must be public key"), then reads the scalar, then the point.
getSharedSecret(privBytes, pubBytes) ==
    IF ByteLen(privBytes) \in {33, 65} THEN Fail("curve", "invalid private key")
    ELSE IF ByteLen(pubBytes) \notin {33, 65} THEN Fail("curve", "bad point")
    ELSE IF ~ValidScalarBytes(privBytes) THEN Fail("curve", "invalid private key")
    ELSE IF ~ValidPointBytes(pubBytes) THEN Fail("curve", "bad point")
    ELSE IF (privBytes[1].v * pubBytes[1].v) % CurveOrder = 0
         THEN Fail("curve", "bad point")
    ELSE Ok(<<Chunk("cpt", (privBytes[1].v * pubBytes[1].v) % CurveOrder)>>)

\* utils.derivePublicKey
derivePublicKey(privateKey) ==
    LET pubKey == getPublicKey(hexToUint8Array(privateKey))
    IN  IF pubKey.ok THEN Ok(uint8ArrayToHex(pubKey.val)) ELSE pubKey

\* viem privateKeyToAccount(key).address: the checksummed address of key * G.
privateKeyToAccount(key) ==
    IF ~ValidScalarBytes(hexToBytes(key)) THEN Fail("account", "invalid private key")
    ELSE Ok(Hex(TRUE, "mixed", <<Chunk("b20", key.b[1].v)>>))

-----------------------------------------------------------------------------
(* core.computeECDH *)

ECDHFailed == "ECDH computation failed"

\* Mutant: the hash also takes in the caller's view of the public key.
computeECDH_HashesPublicKey(privateKey, publicKey) ==
    LET sharedPoint == getSharedSecret(hexToUint8Array(WithPrefix(privateKey)),
                                       hexToUint8Array(WithPrefix(publicKey)))
    IN  IF IsFalsy(privateKey) \/ IsFalsy(publicKey) \/ ~sharedPoint.ok
        THEN Fail(ECDHFailed, "none")
        ELSE Ok(keccak256(uint8ArrayToHex(sharedPoint.val
                                            \o hexToUint8Array(publicKey))))

computeECDH(privateKey, publicKey) ==
    IF IsFalsy(privateKey) \/ IsFalsy(publicKey)
    THEN Fail(ECDHFailed, "Missing private or public key")
    ELSE
    LET privKey == WithPrefix(privateKey)
        pubKey == WithPrefix(publicKey)
    IN  IF StrLen(privKey) # 66
        THEN Fail(ECDHFailed, "Invalid private key length")
        ELSE IF StrLen(pubKey) - 2 # 66 /\ StrLen(pubKey) - 2 # 130
        THEN Fail(ECDHFailed, "Invalid public key length")
        ELSE
        LET sharedPoint == getSharedSecret(hexToUint8Array(privKey),
                                           hexToUint8Array(pubKey))
        IN  IF ~sharedPoint.ok THEN Fail(ECDHFailed, sharedPoint.cause)
            ELSE Ok(keccak256(uint8ArrayToHex(sharedPoint.val)))

-----------------------------------------------------------------------------
(* core.generateStealthKeys, core.generateStealthAddress *)

\* viem generatePrivateKey(): the scalar drawn is the caller's parameter rnd.
generatePrivateKey(rnd) == Hex(TRUE, "lower", <<Chunk("b32", rnd)>>)

generateStealthKeys(rndSpending, rndViewing) ==
    LET spendingPrivateKey == generatePrivateKey(rndSpending)
        viewingPrivateKey == generatePrivateKey(rndViewing)
    IN  [spendingPrivateKey |-> spendingPrivateKey,
         viewingPrivateKey |-> viewingPrivateKey,
         spendingPublicKey |-> derivePublicKey(spendingPrivateKey).val,
         viewingPublicKey |-> derivePublicKey(viewingPrivateKey).val]

\* sharedSecret.slice(2, 4).toLowerCase(): the two digits of the first byte.
FirstByteHex(sharedSecret) ==
    Hex(FALSE, "lower", <<Chunk("b1", sharedSecret.b[1].v % NumTags)>>)

NoStealthAddress ==
    [address |-> Falsy, ephemeralPublicKey |-> Falsy, viewTag |-> Falsy]

\* A thrown error: no StealthAddress, no local stealthPrivateKey.
GenFail(err, cause) ==
    [ok |-> FALSE, val |-> NoStealthAddress, key |-> Falsy,
     err |-> err, cause |-> cause]

\* The returned StealthAddress; key is the local stealthPrivateKey (line 91),
\* which the function does not return.
generateStealthAddress(viewingPublicKey, spendingPublicKey, ephemeralPrivateKey, rnd) ==
    LET normalizedViewingPub == WithPrefix(viewingPublicKey)
        viewingPubHexLength == StrLen(normalizedViewingPub) - 2
    IN  IF viewingPubHexLength # 66 /\ viewingPubHexLength # 130
        THEN GenFail("Invalid viewingPublicKey format", "none")
        ELSE
        LET ephemeralKey == IF IsFalsy(ephemeralPrivateKey)
                            THEN generatePrivateKey(rnd)
                            ELSE ephemeralPrivateKey
            ephemeralPublicKey == derivePublicKey(ephemeralKey)
            sharedSecret == computeECDH(ephemeralKey, normalizedViewingPub)
            combined == hexToBytes(sharedSecret.val) \o hexToBytes(normalizedViewingPub)
            stealthPrivateKey == keccak256(toHex(combined))
            stealthAccount == privateKeyToAccount(stealthPrivateKey)
        IN  IF ~ephemeralPublicKey.ok
            THEN GenFail(ephemeralPublicKey.err, ephemeralPublicKey.cause)
            ELSE IF ~sharedSecret.ok
            THEN GenFail(sharedSecret.err, sharedSecret.cause)
            ELSE IF ~stealthAccount.ok
            THEN GenFail(stealthAccount.err, stealthAccount.cause)
            ELSE [ok |-> TRUE,
                  val |-> [address |-> stealthAccount.val,
                           ephemeralPublicKey |-> ephemeralPublicKey.val,
                           viewTag |-> FirstByteHex(sharedSecret.val)],
                  key |-> stealthPrivateKey,
                  err |-> "none", cause |-> "none"]

\* core.createStealthMetadata; now is Date.now().
createStealthMetadata(stealthAddress, network, now) ==
    [stealthAddress |-> stealthAddress.address,
     ephemeralPublicKey |-> stealthAddress.ephemeralPublicKey,
     viewTag |-> stealthAddress.viewTag,
     network |-> network,
     createdAt |-> now]

-----------------------------------------------------------------------------
(* core.deriveStealthSpendingKey *)

\* Mutant: the key is returned without the address comparison.
deriveStealthSpendingKey_NoCheck(spendingPrivateKey, viewingPrivateKey, stealthAddress, ephemeralPublicKey, viewingPublicKey) ==
    LET sharedSecret == computeECDH(viewingPrivateKey, ephemeralPublicKey)
        viewingPublicKey2 == IF IsFalsy(viewingPublicKey)
                             THEN derivePublicKey(viewingPrivateKey).val
                             ELSE viewingPublicKey
        combined == hexToBytes(sharedSecret.val) \o hexToBytes(viewingPublicKey2)
    IN  IF ~sharedSecret.ok THEN Fail(sharedSecret.err, sharedSecret.cause)
        ELSE Ok(keccak256(toHex(combined)))

\* Mutant: viewingPublicKey || sharedSecret instead of sharedSecret || viewingPublicKey.
deriveStealthSpendingKey_SwappedConcat(spendingPrivateKey, viewingPrivateKey, stealthAddress, ephemeralPublicKey, viewingPublicKey) ==
    LET sharedSecret == computeECDH(viewingPrivateKey, ephemeralPublicKey)
        viewingPublicKey2 == IF IsFalsy(viewingPublicKey)
                             THEN derivePublicKey(viewingPrivateKey).val
                             ELSE viewingPublicKey
        combined == hexToBytes(viewingPublicKey2) \o hexToBytes(sharedSecret.val)
        stealthPrivateKey == keccak256(toHex(combined))
        derivedAccount == privateKeyToAccount(stealthPrivateKey)
    IN  IF ~sharedSecret.ok THEN Fail(sharedSecret.err, sharedSecret.cause)
        ELSE IF ~derivedAccount.ok
        THEN Fail(derivedAccount.err, derivedAccount.cause)
        ELSE IF toLowerCase(derivedAccount.val) # toLowerCase(stealthAddress)
        THEN Fail("Derived address mismatch!", "none")
        ELSE Ok(stealthPrivateKey)

\* Mutant: the one-time key also takes in the master spending key.
deriveStealthSpendingKey_MixesSpendingKey(spendingPrivateKey, viewingPrivateKey, stealthAddress, ephemeralPublicKey, viewingPublicKey) ==
    LET sharedSecret == computeECDH(viewingPrivateKey, ephemeralPublicKey)
        viewingPublicKey2 == IF IsFalsy(viewingPublicKey)
                             THEN derivePublicKey(viewingPrivateKey).val
                             ELSE viewingPublicKey
        combined == hexToBytes(sharedSecret.val) \o hexToBytes(viewingPublicKey2)
                        \o hexToUint8Array(spendingPrivateKey)
        stealthPrivateKey == keccak256(toHex(combined))
        derivedAccount == privateKeyToAccount(stealthPrivateKey)
    IN  IF ~sharedSecret.ok THEN Fail(sharedSecret.err, sharedSecret.cause)
        ELSE IF ~derivedAccount.ok
        THEN Fail(derivedAccount.err, derivedAccount.cause)
        ELSE IF toLowerCase(derivedAccount.val) # toLowerCase(stealthAddress)
        THEN Fail("Derived address mismatch!", "none")
        ELSE Ok(stealthPrivateKey)

deriveStealthSpendingKey(spendingPrivateKey, viewingPrivateKey, stealthAddress, ephemeralPublicKey, viewingPublicKey) ==
    LET sharedSecret == computeECDH(viewingPrivateKey, ephemeralPublicKey)
        viewingPub == derivePublicKey(viewingPrivateKey)
        viewingPublicKey2 == IF IsFalsy(viewingPublicKey) THEN viewingPub.val
                             ELSE viewingPublicKey
        combined == hexToBytes(sharedSecret.val) \o hexToBytes(viewingPublicKey2)
        stealthPrivateKey == keccak256(toHex(combined))
        derivedAccount == privateKeyToAccount(stealthPrivateKey)
    IN  IF ~sharedSecret.ok THEN Fail(sharedSecret.err, sharedSecret.cause)
        ELSE IF IsFalsy(viewingPublicKey) /\ ~viewingPub.ok
        THEN Fail(viewingPub.err, viewingPub.cause)
        ELSE IF ~derivedAccount.ok
        THEN Fail(derivedAccount.err, derivedAccount.cause)
        ELSE IF toLowerCase(derivedAccount.val) # toLowerCase(stealthAddress)
        THEN Fail("Derived address mismatch!", "none")
        ELSE Ok(stealthPrivateKey)

-----------------------------------------------------------------------------
(* State *)

VARIABLES
    keys,        \* the receiver's StealthKeys (generateStealthKeys)
    call,        \* the last call of generateStealthAddress / deriveStealthSpendingKey
    ecdhCall,    \* the last call of computeECDH
    ecdhPeer,    \* the call of computeECDH before it
    db,          \* the StealthMetadata list handed to the scanner
    scanPc,      \* scanStealthAddresses: where the call stands
    scanArgs,    \* its viewingPrivateKey and viewingPublicKey arguments
    scanIdx,     \* index of the record the loop is at
    scanSecret,  \* local sharedSecret of the current iteration
    scanAccount, \* local stealthAccount.address of the current iteration
    discovered,  \* local result list
    scanTrace    \* curve and hash operations performed so far, <<index, operation>>

vars == <<keys, call, ecdhCall, ecdhPeer, db, scanPc, scanArgs, scanIdx,
          scanSecret, scanAccount, discovered, scanTrace>>

scanVars == <<db, scanPc, scanArgs, scanIdx, scanSecret, scanAccount,
              discovered, scanTrace>>

NoKeys ==
    [spendingPrivateKey |-> Falsy, viewingPrivateKey |-> Falsy,
     spendingPublicKey |-> Falsy, viewingPublicKey |-> Falsy]

NoArgs ==
    [viewingPublicKey |-> Falsy, spendingPublicKey |-> Falsy,
     ephemeralPrivateKey |-> Falsy, spendingPrivateKey |-> Falsy,
     viewingPrivateKey |-> Falsy, stealthAddress |-> Falsy,
     ephemeralPublicKey |-> Falsy, rnd |-> 0]

NoCall == [fn |-> "none", args |-> NoArgs, res |-> GenFail("none", "none")]

NoEcdhCall ==
    [made |-> FALSE, privateKey |-> Falsy, publicKey |-> Falsy,
     res |-> Fail("none", "none")]

NoScanArgs == [viewingPrivateKey |-> Falsy, viewingPublicKey |-> Falsy]

ScanIdle ==
    /\ db = <<>>
    /\ scanPc = "idle"
    /\ scanArgs = NoScanArgs
    /\ scanIdx = 0
    /\ scanSecret = Falsy
    /\ scanAccount = Falsy
    /\ discovered = <<>>
    /\ scanTrace = <<>>

-----------------------------------------------------------------------------
(* Argument values callers pass *)

NextScalar(a) == (a % (CurveOrder - 1)) + 1

PrivateKeyOf(a) == Hex(TRUE, "lower", <<Chunk("b32", a)>>)

\* The same digits without the "0x" prefix.
Unprefixed(s) == [s EXCEPT !.pfx = FALSE]

\* The 65-byte encoding of the point a 33-byte public key encodes.
Uncompressed(pub) == [pub EXCEPT !.b = <<[pub.b[1] EXCEPT !.kind = "upt"]>>]

\* Ten hex digits: neither a key nor a point.
ShortHex == Hex(TRUE, "lower", <<Chunk("b5", 0)>>)

\* 32-byte words, among them 0 and the group order, which are no scalars.
PrivInputs ==
    {Falsy, ShortHex}
        \cup {Hex(p, "lower", <<Chunk("b32", a)>>) : p \in BOOLEAN, a \in 0 .. CurveOrder}

\* 33- and 65-byte strings; v = 0 stands for bytes that decode to no curve point.
PubInputs ==
    {Falsy, ShortHex}
        \cup {Hex(p, "lower", <<Chunk(k, v)>>) :
                p \in BOOLEAN, k \in {"cpt", "upt"}, v \in 0 .. (CurveOrder - 1)}

-----------------------------------------------------------------------------
(* Specification of the shared-secret engine: calls of computeECDH *)

\* The sender's call and then the receiver's: two calls in a behaviour.
ComputeECDH(privateKey, publicKey) ==
    /\ ecdhCall' = [made |-> TRUE, privateKey |-> privateKey, publicKey |-> publicKey,
                    res |-> computeECDH(privateKey, publicKey)]
    /\ ecdhPeer' = ecdhCall
    /\ UNCHANGED <<keys, call, scanVars>>

EcdhInit ==
    /\ keys = NoKeys
    /\ call = NoCall
    /\ ecdhCall = NoEcdhCall
    /\ ecdhPeer = NoEcdhCall
    /\ ScanIdle

EcdhNext ==
    /\ ~ecdhPeer.made
    /\ \E privateKey \in PrivInputs, publicKey \in PubInputs :
           ComputeECDH(privateKey, publicKey)

SpecEcdh == EcdhInit /\ [][EcdhNext]_vars

-----------------------------------------------------------------------------
(* Specification of the sender's and the receiver's calls: the receiver's  *)
(* keys are generated, then generateStealthAddress or                      *)
(* deriveStealthSpendingKey is called once.                                *)

AddressOf(k, cs) == Hex(TRUE, cs, <<Chunk("b20", k)>>)

\* viewingPublicKey arguments: the receiver's key as published, in its 65-byte
\* encoding, without prefix, another receiver's key, and malformed ones.
GenViewingPubInputs ==
    {keys.viewingPublicKey, Uncompressed(keys.viewingPublicKey),
     Unprefixed(keys.viewingPublicKey),
     derivePublicKey(PrivateKeyOf(NextScalar(keys.viewingPrivateKey.b[1].v))).val,
     ShortHex, Falsy}

GenSpendingPubInputs ==
    {Falsy, keys.spendingPublicKey, Uncompressed(keys.spendingPublicKey)}
        \cup {derivePublicKey(PrivateKeyOf(a)).val : a \in Scalars}

GenEphemeralInputs ==
    {Falsy, PrivateKeyOf(0)}
        \cup {Hex(p, "lower", <<Chunk("b32", a)>>) : p \in BOOLEAN, a \in Scalars}

GenerateStealthAddress(viewingPublicKey, spendingPublicKey, ephemeralPrivateKey, rnd) ==
    /\ call' = [fn |-> "generate",
                args |-> [NoArgs EXCEPT !.viewingPublicKey = viewingPublicKey,
                                        !.spendingPublicKey = spendingPublicKey,
                                        !.ephemeralPrivateKey = ephemeralPrivateKey,
                                        !.rnd = rnd],
                res |-> generateStealthAddress(viewingPublicKey, spendingPublicKey,
                                               ephemeralPrivateKey, rnd)]
    /\ UNCHANGED <<keys, ecdhCall, ecdhPeer, scanVars>>

DrvSpendingPrivInputs == {Falsy} \cup {PrivateKeyOf(a) : a \in Scalars}

DrvViewingPrivInputs ==
    {keys.viewingPrivateKey, Unprefixed(keys.viewingPrivateKey),
     PrivateKeyOf(NextScalar(keys.viewingPrivateKey.b[1].v)), PrivateKeyOf(0), Falsy}

DrvAddressInputs ==
    {Falsy} \cup {AddressOf(k, cs) : k \in Scalars, cs \in {"mixed", "lower", "upper"}}

DrvEphemeralPubInputs ==
    {ShortHex, Hex(TRUE, "lower", <<Chunk("cpt", 0)>>)}
        \cup {derivePublicKey(PrivateKeyOf(e)).val : e \in Scalars}

DrvViewingPubInputs ==
    {Falsy, keys.viewingPublicKey, Uncompressed(keys.viewingPublicKey),
     Unprefixed(keys.viewingPublicKey),
     derivePublicKey(PrivateKeyOf(NextScalar(keys.viewingPrivateKey.b[1].v))).val}

DeriveStealthSpendingKey(spendingPrivateKey, viewingPrivateKey, stealthAddress, ephemeralPublicKey, viewingPublicKey) ==
    /\ LET res == deriveStealthSpendingKey(spendingPrivateKey, viewingPrivateKey,
                      stealthAddress, ephemeralPublicKey, viewingPublicKey)
       IN  call' = [fn |-> "derive",
                    args |-> [NoArgs EXCEPT !.spendingPrivateKey = spendingPrivateKey,
                                            !.viewingPrivateKey = viewingPrivateKey,
                                            !.stealthAddress = stealthAddress,
                                            !.ephemeralPublicKey = ephemeralPublicKey,
                                            !.viewingPublicKey = viewingPublicKey],
                    res |-> [ok |-> res.ok, val |-> NoStealthAddress, key |-> res.val,
                             err |-> res.err, cause |-> res.cause]]
    /\ UNCHANGED <<keys, ecdhCall, ecdhPeer, scanVars>>

ApiInit ==
    /\ \E rndSpending \in Scalars, rndViewing \in Scalars :
           keys = generateStealthKeys(rndSpending, rndViewing)
    /\ call = NoCall
    /\ ecdhCall = NoEcdhCall
    /\ ecdhPeer = NoEcdhCall
    /\ ScanIdle

\* The sender's call, with every argument a caller can pass.
SenderGenerates ==
    /\ call.fn = "none"
    /\ \E viewingPublicKey \in GenViewingPubInputs,
          spendingPublicKey \in GenSpendingPubInputs,
          ephemeralPrivateKey \in GenEphemeralInputs,
          rnd \in Scalars :
            GenerateStealthAddress(viewingPublicKey, spendingPublicKey,
                                   ephemeralPrivateKey, rnd)

\* The receiver's call, with every argument a caller can pass.
ReceiverDerives ==
    /\ call.fn = "none"
    /\ \E spendingPrivateKey \in DrvSpendingPrivInputs,
          viewingPrivateKey \in DrvViewingPrivInputs,
          stealthAddress \in DrvAddressInputs,
          ephemeralPublicKey \in DrvEphemeralPubInputs,
          viewingPublicKey \in DrvViewingPubInputs :
            DeriveStealthSpendingKey(spendingPrivateKey, viewingPrivateKey,
                                     stealthAddress, ephemeralPublicKey,
                                     viewingPublicKey)

ApiNext == SenderGenerates \/ ReceiverDerives

SpecApi == ApiInit /\ [][ApiNext]_vars

-----------------------------------------------------------------------------------------------------------------------------------------------------
(* core.scanStealthAddresses, one action per step of the loop body *)

\* Line 122: a record with an empty field is passed over.
scanFieldMissing(meta) ==
    IsFalsy(meta.stealthAddress) \/ IsFalsy(meta.ephemeralPublicKey)
        \/ IsFalsy(meta.viewTag)

\* Line 133: (meta.viewTag || "").toLowerCase().replace(/^0x/, "")
storedViewTagOf(meta) == Unprefixed(toLowerCase(meta.viewTag))

\* Mutant: the view tag is not consulted.
scanViewTagMismatch_Never(computedViewTag, storedViewTag) == FALSE

\* Line 135: computedViewTag !== storedViewTag
scanViewTagMismatch(computedViewTag, storedViewTag) ==
    computedViewTag # storedViewTag

\* Mutant: viewingPublicKey || sharedSecret.
scanRederive_SwappedConcat(sharedSecret, viewingPub) ==
    privateKeyToAccount(keccak256(toHex(hexToBytes(viewingPub)
                                          \o hexToBytes(sharedSecret))))

\* Lines 139-147: the account of hash(sharedSecret || viewingPub).
scanRederive(sharedSecret, viewingPub) ==
    LET sharedSecretBytes == hexToBytes(sharedSecret)
        viewingPubBytes == hexToBytes(viewingPub)
        combined == sharedSecretBytes \o viewingPubBytes
        stealthPrivateKey == keccak256(toHex(combined))
    IN  privateKeyToAccount(stealthPrivateKey)

\* Mutant: a matching view tag is taken for a match.
scanAddressMatches_Always(address, meta) == TRUE

\* Line 149: the addresses compared in lower case.
scanAddressMatches(address, meta) ==
    toLowerCase(address) = toLowerCase(meta.stealthAddress)

\* Mutant: an error in the loop body ends the scan.
scanCatch_Rethrows(idx) == [pc |-> "threw", idx |-> idx]

\* Lines 156-158: catch and continue with the next record.
scanCatch(idx) == [pc |-> "loop", idx |-> idx + 1]

\* Lines 111-118: the keys are checked and normalised.
ScanStart(viewingPrivateKey, viewingPublicKey) ==
    /\ scanPc = "idle"
    /\ discovered' = <<>>
    /\ IF IsFalsy(viewingPrivateKey) \/ IsFalsy(viewingPublicKey)
       THEN /\ scanPc' = "threw"
            /\ UNCHANGED <<scanArgs, scanIdx>>
       ELSE /\ scanPc' = "loop"
            /\ scanArgs' = [viewingPrivateKey |-> WithPrefix(viewingPrivateKey),
                            viewingPublicKey |-> WithPrefix(viewingPublicKey)]
            /\ scanIdx' = 1
    /\ UNCHANGED <<keys, call, ecdhCall, ecdhPeer, db, scanSecret, scanAccount,
                   scanTrace>>

\* Lines 120-124 and 161: the next record, or the return of the list.
ScanNextRecord ==
    /\ scanPc = "loop"
    /\ IF scanIdx > Len(db)
       THEN scanPc' = "done" /\ UNCHANGED scanIdx
       ELSE IF scanFieldMissing(db[scanIdx])
       THEN scanPc' = "loop" /\ scanIdx' = scanIdx + 1
       ELSE scanPc' = "ecdh" /\ UNCHANGED scanIdx
    /\ UNCHANGED <<keys, call, ecdhCall, ecdhPeer, db, scanArgs, scanSecret,
                   scanAccount, discovered, scanTrace>>

\* Lines 126-130: the shared secret of the record's ephemeral key.
ScanSharedSecret ==
    /\ scanPc = "ecdh"
    /\ LET ephemeralPub == WithPrefix(db[scanIdx].ephemeralPublicKey)
           sharedSecret == computeECDH(scanArgs.viewingPrivateKey, ephemeralPub)
       IN  IF sharedSecret.ok
           THEN /\ scanSecret' = sharedSecret.val
                /\ scanPc' = "tag"
                /\ UNCHANGED scanIdx
           ELSE /\ scanPc' = scanCatch(scanIdx).pc
                /\ scanIdx' = scanCatch(scanIdx).idx
                /\ UNCHANGED scanSecret
    /\ scanTrace' = Append(scanTrace, <<scanIdx, "ecdh">>)
    /\ UNCHANGED <<keys, call, ecdhCall, ecdhPeer, db, scanArgs, scanAccount,
                   discovered>>

\* Lines 132-137: the view tag filter.
ScanViewTag ==
    /\ scanPc = "tag"
    /\ IF scanViewTagMismatch(FirstByteHex(scanSecret), storedViewTagOf(db[scanIdx]))
       THEN scanPc' = "loop" /\ scanIdx' = scanIdx + 1
       ELSE scanPc' = "derive" /\ UNCHANGED scanIdx
    /\ UNCHANGED <<keys, call, ecdhCall, ecdhPeer, db, scanArgs, scanSecret,
                   scanAccount, discovered, scanTrace>>

\* Lines 139-147: the address is derived again.
ScanRederive ==
    /\ scanPc = "derive"
    /\ LET stealthAccount == scanRederive(scanSecret, scanArgs.viewingPublicKey)
       IN  IF stealthAccount.ok
           THEN /\ scanAccount' = stealthAccount.val
                /\ scanPc' = "compare"
                /\ UNCHANGED scanIdx
           ELSE /\ scanPc' = scanCatch(scanIdx).pc
                /\ scanIdx' = scanCatch(scanIdx).idx
                /\ UNCHANGED scanAccount
    /\ scanTrace' = Append(scanTrace, <<scanIdx, "derive">>)
    /\ UNCHANGED <<keys, call, ecdhCall, ecdhPeer, db, scanArgs, scanSecret,
                   discovered>>

\* Lines 149-155: a record whose address matches is appended to the result.
ScanCompare ==
    /\ scanPc = "compare"
    /\ discovered' =
          IF scanAddressMatches(scanAccount, db[scanIdx])
          THEN Append(discovered,
                      [address |-> db[scanIdx].stealthAddress,
                       ephemeralPublicKey |-> WithPrefix(db[scanIdx].ephemeralPublicKey),
                       viewTag |-> db[scanIdx].viewTag])
          ELSE discovered
    /\ scanPc' = "loop"
    /\ scanIdx' = scanIdx + 1
    /\ UNCHANGED <<keys, call, ecdhCall, ecdhPeer, db, scanArgs, scanSecret,
                   scanAccount, scanTrace>>

-----------------------------------------------------------------------------
(* Specification of the scanner: senders publish metadata, the storage     *)
(* layer holds damaged records among them, then the receiver scans.        *)

\* Number of ephemeral scalars the senders' random source yields.
MaxEph == 2

Network == "eth"
Timestamp == 0

OtherReceiverPub ==
    derivePublicKey(PrivateKeyOf(NextScalar(keys.viewingPrivateKey.b[1].v))).val

\* The viewing public keys senders generate for: the receiver's as published,
\* its 65-byte encoding, and another receiver's.
PublishReceivers ==
    {keys.viewingPublicKey, Uncompressed(keys.viewingPublicKey), OtherReceiverPub}

\* demo lines 15-23: generateStealthAddress, then createStealthMetadata, stored.
\* The ephemeral key is passed by the sender or drawn inside (rnd).
Publish(viewingPublicKey, ephemeralPrivateKey, rnd) ==
    LET stealthInfo == generateStealthAddress(viewingPublicKey, keys.spendingPublicKey,
                                              ephemeralPrivateKey, rnd)
    IN  /\ stealthInfo.ok
        /\ db' = Append(db, createStealthMetadata(stealthInfo.val, Network, Timestamp))
        /\ UNCHANGED <<keys, call, ecdhCall, ecdhPeer, scanPc, scanArgs, scanIdx,
                       scanSecret, scanAccount, discovered, scanTrace>>

DamageKinds ==
    {"noAddress", "noEphemeral", "noViewTag", "offCurveEphemeral", "recased"}

\* A record of the list as a storage layer may hand it over: a field lost, an
\* ephemeral key that is no point, or tag and address in another spelling.
Damaged(meta, kind) ==
    CASE kind = "noAddress" -> [meta EXCEPT !.stealthAddress = Falsy]
      [] kind = "noEphemeral" -> [meta EXCEPT !.ephemeralPublicKey = Falsy]
      [] kind = "noViewTag" -> [meta EXCEPT !.viewTag = Falsy]
      [] kind = "offCurveEphemeral" ->
            [meta EXCEPT !.ephemeralPublicKey = Hex(TRUE, "lower", <<Chunk("cpt", 0)>>)]
      [] kind = "recased" ->
            [meta EXCEPT !.viewTag = Hex(TRUE, "upper", meta.viewTag.b),
                         !.stealthAddress = toLowerCase(meta.stealthAddress),
                         !.ephemeralPublicKey = Unprefixed(meta.ephemeralPublicKey)]

\* The ephemeral scalars with which a payment to the receiver can be made.
WorkableEph ==
    {rnd \in 1 .. MaxEph :
        generateStealthAddress(keys.viewingPublicKey, keys.spendingPublicKey,
                               Falsy, rnd).ok}

\* A payment to the receiver (the first the random source allows) whose record
\* reaches the scanner damaged.
PublishDamaged(kind) ==
    LET rnd == CHOOSE r \in WorkableEph : \A q \in WorkableEph : r <= q
        stealthInfo == generateStealthAddress(keys.viewingPublicKey,
                                              keys.spendingPublicKey, Falsy, rnd)
    IN  /\ WorkableEph # {}
        /\ db' = Append(db, Damaged(createStealthMetadata(stealthInfo.val, Network,
                                                          Timestamp), kind))
        /\ UNCHANGED <<keys, call, ecdhCall, ecdhPeer, scanPc, scanArgs, scanIdx,
                       scanSecret, scanAccount, discovered, scanTrace>>

SendersPublish ==
    /\ scanPc = "idle"
    /\ Len(db) < MaxRecords
    /\ \E viewingPublicKey \in PublishReceivers, rnd \in 1 .. MaxEph :
           \E ephemeralPrivateKey \in {Falsy, PrivateKeyOf(rnd)} :
               Publish(viewingPublicKey, ephemeralPrivateKey, rnd)

StorageDamages ==
    /\ scanPc = "idle"
    /\ Len(db) < MaxRecords
    /\ \E kind \in DamageKinds : PublishDamaged(kind)

\* The receiver's calls: its keys as generated, without "0x", and with a key
\* missing.
ScanKeyInputs ==
    {<<keys.viewingPrivateKey, keys.viewingPublicKey>>,
     <<Unprefixed(keys.viewingPrivateKey), Unprefixed(keys.viewingPublicKey)>>,
     <<keys.viewingPrivateKey, Falsy>>,
     <<Falsy, keys.viewingPublicKey>>}

ReceiverScans ==
    \E k \in ScanKeyInputs : ScanStart(k[1], k[2])

\* The scanner takes no spending key: one spending key per viewing key.
ScanInit ==
    /\ \E rndViewing \in Scalars :
           keys = generateStealthKeys(NextScalar(rndViewing), rndViewing)
    /\ call = NoCall
    /\ ecdhCall = NoEcdhCall
    /\ ecdhPeer = NoEcdhCall
    /\ ScanIdle

Next ==
    \/ SendersPublish
    \/ StorageDamages
    \/ ReceiverScans
    \/ ScanNextRecord
    \/ ScanSharedSecret
    \/ ScanViewTag
    \/ ScanRederive
    \/ ScanCompare

Spec == ScanInit /\ [][Next]_vars

-----------------------------------------------------------------------------
(* Claims on the scanner (Spec) *)

\* The scan runs with the receiver's own keys as generateStealthKeys made them.
OwnKeysScan ==
    /\ scanArgs.viewingPrivateKey = keys.viewingPrivateKey
    /\ scanArgs.viewingPublicKey = keys.viewingPublicKey

\* The entry the scanner returns for a record it takes for the receiver's.
EntryOf(meta) ==
    [address |-> meta.stealthAddress,
     ephemeralPublicKey |-> WithPrefix(meta.ephemeralPublicKey),
     viewTag |-> meta.viewTag]

\* The shared secret of the scan's viewing private key and a record's ephemeral key.
SecretFor(meta) ==
    computeECDH(scanArgs.viewingPrivateKey, WithPrefix(meta.ephemeralPublicKey))

\* The record's view tag is the first byte of the shared secret.
TagMatches(meta) ==
    LET secret == SecretFor(meta)
    IN  /\ secret.ok
        /\ FirstByteHex(secret.val) = Unprefixed(toLowerCase(meta.viewTag))

\* The account of hash(sharedSecret || viewingPublicKey) for a record.
AccountFor(meta) ==
    LET secret == SecretFor(meta)
    IN  IF ~secret.ok THEN Fail(secret.err, secret.cause)
        ELSE privateKeyToAccount(
                 keccak256(toHex(hexToBytes(secret.val)
                                   \o hexToBytes(scanArgs.viewingPublicKey))))

\* The re-derived address is the record's address, compared in lower case.
AddressMatches(meta) ==
    LET account == AccountFor(meta)
    IN  /\ account.ok
        /\ toLowerCase(account.val) = toLowerCase(meta.stealthAddress)

IsMine(meta) ==
    /\ ~scanFieldMissing(meta)
    /\ TagMatches(meta)
    /\ AddressMatches(meta)

\* The records the loop has finished with.
Processed == IF scanPc \in {"idle", "threw"} THEN {} ELSE 1 .. (scanIdx - 1)

\* C1: generation/scan round trip.  Scanning the one record made from a
\* stealth address generated for the receiver's viewing public key, with the
\* receiver's viewing keys, returns one entry with that address and
\* ephemeral public key.
C1_RoundTrip ==
    (scanPc = "done" /\ OwnKeysScan /\ Len(db) = 1) =>
        \A rnd \in 1 .. MaxEph :
        \A ephemeralPrivateKey \in {Falsy, PrivateKeyOf(rnd)} :
            LET s == generateStealthAddress(keys.viewingPublicKey,
                         keys.spendingPublicKey, ephemeralPrivateKey, rnd)
            IN  (s.ok /\ db = <<createStealthMetadata(s.val, Network, Timestamp)>>)
                    => /\ Len(discovered) = 1
                       /\ discovered[1].address = s.val.address
                       /\ discovered[1].ephemeralPublicKey = s.val.ephemeralPublicKey

C1_Witness ==
    /\ scanPc = "done"
    /\ OwnKeysScan
    /\ \E rnd \in 1 .. MaxEph :
          LET s == generateStealthAddress(keys.viewingPublicKey,
                       keys.spendingPublicKey, Falsy, rnd)
          IN  s.ok /\ db = <<createStealthMetadata(s.val, Network, Timestamp)>>
    /\ Len(discovered) = 1

\* C2: view-tag filter soundness.  Every entry the scan returns stands for a
\* record whose claimed address is the re-derived one (without regard to case),
\* and a record whose tag matches while its address differs is not returned.
C2_FilterSoundness ==
    scanPc = "done" =>
        LET addressOk == [i \in Processed |-> AddressMatches(db[i])]
            collision == [i \in Processed |->
                             /\ ~scanFieldMissing(db[i])
                             /\ TagMatches(db[i])
                             /\ ~addressOk[i]]
        IN  /\ \A j \in 1 .. Len(discovered) :
                  \E i \in Processed : discovered[j] = EntryOf(db[i]) /\ addressOk[i]
            /\ \A i \in Processed :
                  collision[i]
                      => \A j \in 1 .. Len(discovered) : discovered[j] # EntryOf(db[i])

C2_Witness ==
    /\ scanPc = "done"
    /\ Len(discovered) = 1
    /\ discovered[1].address.cs = "lower"
    /\ \E i \in Processed :
          ~scanFieldMissing(db[i]) /\ TagMatches(db[i]) /\ ~AddressMatches(db[i])

RECURSIVE Expected(_)
\* The entries of the receiver's records of a list, in the order of the list.
Expected(list) ==
    IF list = <<>> THEN <<>>
    ELSE (IF IsMine(Head(list)) THEN <<EntryOf(Head(list))>> ELSE <<>>)
            \o Expected(Tail(list))

\* A record the scanner cannot evaluate.
Unusable(meta) ==
    \/ scanFieldMissing(meta)
    \/ ~SecretFor(meta).ok
    \/ (TagMatches(meta) /\ ~AccountFor(meta).ok)

RECURSIVE Usable(_)
\* A list without its unusable records.
Usable(list) ==
    IF list = <<>> THEN <<>>
    ELSE (IF Unusable(Head(list)) THEN <<>> ELSE <<Head(list)>>) \o Usable(Tail(list))

\* C5: scan robustness.  With both viewing keys present the scan does not
\* throw; it returns the entries of the receiver's records in list order,
\* which are those of the list with the unusable records left out.
C5_ScanRobustness ==
    /\ scanPc = "threw" => scanArgs = NoScanArgs
    /\ scanPc = "done" =>
          /\ discovered = Expected(db)
          /\ discovered = Expected(Usable(db))

C5_Witness ==
    /\ scanPc = "done"
    /\ Len(db) = 3
    /\ \E i, j, k \in 1 .. 3 :
          /\ IsFalsy(db[i].ephemeralPublicKey)
          /\ IsMine(db[j])
          /\ ~Unusable(db[k]) /\ ~IsMine(db[k])
    /\ OwnKeysScan
    /\ Len(discovered) = 1

\* The number of times operation op was performed on record i.
Count(i, op) == Cardinality({p \in DOMAIN scanTrace : scanTrace[p] = <<i, op>>})

\* C9: view-tag short circuit.  In a completed scan the address was derived
\* again only for a record whose tag matched, and after its shared secret was
\* computed; a record whose tag differs was left without it; one shared secret
\* was computed for each record with no empty field, none for the others.  The
\* scanner stands at the derivation only with a matching tag.
C9_ShortCircuit ==
    LET tagOk(i) == ~scanFieldMissing(db[i]) /\ TagMatches(db[i])
    IN  /\ scanPc = "done" =>
              /\ \A p \in DOMAIN scanTrace :
                    scanTrace[p][2] = "derive" =>
                        /\ tagOk(scanTrace[p][1])
                        /\ \E q \in 1 .. (p - 1) :
                              scanTrace[q] = <<scanTrace[p][1], "ecdh">>
              /\ \A i \in Processed :
                    /\ Count(i, "ecdh") = (IF scanFieldMissing(db[i]) THEN 0 ELSE 1)
                    /\ Count(i, "derive") = (IF tagOk(i) THEN 1 ELSE 0)
        /\ scanPc \in {"derive", "compare"} => tagOk(scanIdx)

C9_Witness ==
    /\ scanPc = "done"
    /\ \E i \in Processed :
          /\ ~scanFieldMissing(db[i])
          /\ SecretFor(db[i]).ok
          /\ ~TagMatches(db[i])
          /\ Count(i, "derive") = 0
    /\ \E i \in Processed : Count(i, "derive") = 1 /\ db[i].viewTag.pfx

-----
(* Claims on the shared-secret engine (SpecEcdh) *)

\* The two calls are a*B and b*A for the parties' own key pairs.
Reciprocal ==
    /\ ecdhCall.made
    /\ ecdhPeer.made
    /\ derivePublicKey(ecdhCall.privateKey).ok
    /\ derivePublicKey(ecdhPeer.privateKey).ok
    /\ ecdhCall.publicKey = derivePublicKey(ecdhPeer.privateKey).val
    /\ ecdhPeer.publicKey = derivePublicKey(ecdhCall.privateKey).val

\* C6: ECDH symmetry.  For valid scalars a and b with A = a*G and B = b*G,
\* computeECDH(a, B) and computeECDH(b, A) have the same outcome, and it is a
\* shared secret whenever a*b is not a multiple of the group order.
C6_EcdhSymmetry ==
    Reciprocal =>
        /\ ecdhCall.res = ecdhPeer.res
        /\ (ecdhCall.privateKey.b[1].v * ecdhPeer.privateKey.b[1].v) % CurveOrder # 0
               => ecdhCall.res.ok

C6_Witness ==
    /\ Reciprocal
    /\ ecdhCall.res.ok
    /\ ecdhCall.privateKey.b[1].v # ecdhPeer.privateKey.b[1].v
    /\ ~ecdhCall.privateKey.pfx

\* The error kinds of the specification's taxonomy, as the caller sees them.
InvalidKeyLength == "Invalid key length"
SharedSecretComputationFailed == ECDHFailed

\* The scalar is not 32 bytes, or the point neither 33 nor 65 bytes.
BadLengths(c) ==
    \/ ByteLen(hexToUint8Array(c.privateKey)) # 32
    \/ ByteLen(hexToUint8Array(c.publicKey)) \notin {33, 65}

\* C7: a call with a scalar that is not 32 bytes or a point that is neither 33
\* nor 65 bytes fails with InvalidKeyLength, and SharedSecretComputationFailed
\* is reported only for an error of the curve library.
C7_LengthErrorKind ==
    ecdhCall.made =>
        /\ BadLengths(ecdhCall)
               => (~ecdhCall.res.ok /\ ecdhCall.res.err = InvalidKeyLength)
        /\ (~ecdhCall.res.ok /\ ecdhCall.res.err = SharedSecretComputationFailed)
               => ecdhCall.res.cause \in {"invalid private key", "bad point"}

-----------------------------------------------------------------------------
(* Claims on generation and spend-key recovery (SpecApi) *)

\* Line 176-179: the viewing public key the recovery hashes.
EffectiveViewingPub(a) ==
    IF IsFalsy(a.viewingPublicKey) THEN derivePublicKey(a.viewingPrivateKey).val
    ELSE a.viewingPublicKey

\* The address of hash(sharedSecret || viewingPublicKey) for a recovery's arguments.
Rederived(a) ==
    privateKeyToAccount(
        keccak256(toHex(hexToBytes(computeECDH(a.viewingPrivateKey,
                                               a.ephemeralPublicKey).val)
                          \o hexToBytes(EffectiveViewingPub(a)))))

\* C3: spend-key self-verification.  A returned key controls the supplied
\* address (compared without regard to case); when the re-derived address
\* differs from the supplied one the call fails with the mismatch error and
\* returns no key.
C3_SpendKeySelfVerification ==
    call.fn = "derive" =>
        /\ call.res.ok =>
              /\ privateKeyToAccount(call.res.key).ok
              /\ toLowerCase(privateKeyToAccount(call.res.key).val)
                    = toLowerCase(call.args.stealthAddress)
        /\ ( /\ computeECDH(call.args.viewingPrivateKey,
                            call.args.ephemeralPublicKey).ok
             /\ Rederived(call.args).ok
             /\ toLowerCase(Rederived(call.args).val)
                    # toLowerCase(call.args.stealthAddress) )
              => /\ ~call.res.ok
                 /\ call.res.err = "Derived address mismatch!"
                 /\ call.res.key = Falsy

C3_Witness ==
    /\ call.fn = "derive"
    /\ Rederived(call.args).ok
    /\ call.args.stealthAddress \in {AddressOf(k, "mixed") : k \in Scalars}
    /\ call.res.err = "Derived address mismatch!"

\* The call is a recovery with the keys of the receiver.
RecoveryWithOwnKeys ==
    /\ call.fn = "derive"
    /\ call.args.spendingPrivateKey = keys.spendingPrivateKey
    /\ call.args.viewingPrivateKey = keys.viewingPrivateKey
    /\ call.args.viewingPublicKey \in {keys.viewingPublicKey, Falsy}

\* The call recovers stealth address s of the receiver whose keys are in keys.
RecoveryOf(s) ==
    /\ RecoveryWithOwnKeys
    /\ s.ok
    /\ call.args.stealthAddress = s.val.address
    /\ call.args.ephemeralPublicKey = s.val.ephemeralPublicKey

\* C4: recoverability.  For every stealth address generated for the receiver's
\* viewing public key, the recovery with the receiver's keys succeeds and
\* returns the sender's one-time key, whose address is the stealth address,
\* with the viewing public key passed or omitted.
C4_Recoverability ==
    RecoveryWithOwnKeys =>
    \A ephemeralPrivateKey \in GenEphemeralInputs, rnd \in Scalars :
        LET s == generateStealthAddress(keys.viewingPublicKey, keys.spendingPublicKey,
                                        ephemeralPrivateKey, rnd)
        IN  RecoveryOf(s) =>
                /\ call.res.ok
                /\ call.res.key = s.key
                /\ privateKeyToAccount(call.res.key).val = s.val.address

C4_Witness ==
    /\ RecoveryWithOwnKeys
    /\ \E ephemeralPrivateKey \in GenEphemeralInputs, rnd \in Scalars :
        /\ RecoveryOf(generateStealthAddress(keys.viewingPublicKey,
                                             keys.spendingPublicKey,
                                             ephemeralPrivateKey, rnd))
        /\ call.args.viewingPublicKey = Falsy
        /\ call.res.ok

\* C8: spending-key independence.  The result of generateStealthAddress is the
\* same for every spendingPublicKey, and the outcome of
\* deriveStealthSpendingKey the same for every spendingPrivateKey.
C8_SpendingKeyIndependence ==
    /\ call.fn = "generate" =>
          \A spendingPublicKey \in GenSpendingPubInputs :
              generateStealthAddress(call.args.viewingPublicKey, spendingPublicKey,
                                     call.args.ephemeralPrivateKey, call.args.rnd)
                  = call.res
    /\ call.fn = "derive" =>
          \A spendingPrivateKey \in DrvSpendingPrivInputs :
              LET r == deriveStealthSpendingKey(spendingPrivateKey,
                           call.args.viewingPrivateKey, call.args.stealthAddress,
                           call.args.ephemeralPublicKey, call.args.viewingPublicKey)
              IN  /\ r.ok = call.res.ok
                  /\ r.val = call.res.key
                  /\ r.err = call.res.err

C8_Witness ==
    /\ call.fn = "derive"
    /\ call.res.ok
    /\ call.args.spendingPrivateKey # keys.spendingPrivateKey
    /\ call.args.spendingPrivateKey # Falsy

\* C10: encoding-independent derivation.  A stealth address generated from the
\* receiver's 65-byte viewing public key has the address and view tag of the
\* one generated from the 33-byte key with the same ephemeral key, and the
\* receiver recovers its key with the 33-byte viewing public key.
C10_EncodingIndependent ==
    ( /\ call.fn = "generate"
      /\ call.args.viewingPublicKey = Uncompressed(keys.viewingPublicKey)
      /\ call.res.ok )
        => LET c == generateStealthAddress(keys.viewingPublicKey,
                        call.args.spendingPublicKey, call.args.ephemeralPrivateKey,
                        call.args.rnd)
           IN  /\ c.ok
               /\ c.val.address = call.res.val.address
               /\ c.val.viewTag = call.res.val.viewTag
               /\ deriveStealthSpendingKey(keys.spendingPrivateKey,
                      keys.viewingPrivateKey, call.res.val.address,
                      call.res.val.ephemeralPublicKey, keys.viewingPublicKey).ok

====
